---- MODULE Spec2Model ----
(***************************************************************************)
(* Multi-provider email verification: the five provider adapters           *)
(* (src/services/*.py) and EmailVerificationManager                         *)
(* (src/email_verification_manager.py).                                     *)
(*                                                                          *)
(* Python values are encoded as follows.                                    *)
(*   - a JSON field value is one of the strings "true", "false", "null",   *)
(*     "missing" (key not in the dict); status fields carry their string.  *)
(*   - is_valid is "true", "false" or "none" (None, or key not in dict:    *)
(*     the manager and the store only ever read it with .get()).           *)
(*   - a score is a record [kind, n, d]: kind "absent" (None / no key),    *)
(*     "num" (the number n/d, kept exact) or "str" (a JSON value that is   *)
(*     not a number, e.g. "85").                                            *)
(*   - str(e) of a caught exception is a string naming its cause.          *)
(***************************************************************************)
EXTENDS Integers, Sequences, FiniteSets, TLC

(***************************************************************************)
(* Bounds of the model.                                                     *)
(***************************************************************************)
MaxStoreFailures == 1
MaxHunterScore == 85

Emails == {"a@x.com", "b@y.org"}

(***************************************************************************)
(* The service registry, in the insertion order of the dict.               *)
(***************************************************************************)
services == <<"zerobounce", "mailboxlayer", "neutrinoapi", "spokeo", "hunter">>
ServiceNames == {services[i] : i \in 1..Len(services)}

(***************************************************************************)
(* Exact arithmetic on scores.                                              *)
(***************************************************************************)
RECURSIVE GCD(_, _)
GCD(a, b) == IF b = 0 THEN a ELSE GCD(b, a % b)

Abs(x) == IF x < 0 THEN -x ELSE x

NoScore == [kind |-> "absent", n |-> 0, d |-> 1]
StrScore == [kind |-> "str", n |-> 0, d |-> 1]
Num(n, d) ==
    LET g == GCD(Abs(n), d)
    IN  [kind |-> "num", n |-> n \div g, d |-> d \div g]

\* x + y of two "num" scores
Plus(x, y) == Num(x.n * y.d + y.n * x.d, x.d * y.d)
\* x / k of a "num" score by a positive integer
DivBy(x, k) == Num(x.n, x.d * k)

(***************************************************************************)
(* JSON helpers: dict.get(key, default) and Python truthiness.             *)
(***************************************************************************)
JVals == {"true", "false", "null", "missing"}
Get(v, default) == IF v = "missing" THEN default ELSE v
Truthy(v) == v = "true"
\* JSON value -> the is_valid value it becomes when passed through unchanged
AsValid(v) == IF v = "true" THEN "true" ELSE IF v = "false" THEN "false" ELSE "none"
BoolValid(b) == IF b THEN "true" ELSE "false"

(***************************************************************************)
(* What one HTTP exchange can produce.                                      *)
(***************************************************************************)
Transport == [type |-> "transport", body |-> [kind |-> "none"]]
HttpError == [type |-> "http", body |-> [kind |-> "none"]]
BadJson == [type |-> "badjson", body |-> [kind |-> "none"]]
Json(body) == [type |-> "json", body |-> body]
NonDict == [kind |-> "nondict"]

\* str(e) of the exception the exchange raises before a payload is read
NetError(net) ==
    CASE net.type = "transport" -> "ConnectionError"
      [] net.type = "http" -> "HTTPError"
      [] net.type = "badjson" -> "JSONDecodeError"
      [] OTHER -> "none"

\* the dict an adapter returns from its except branch and its credential guard
ErrorResult(email, provider, error) ==
    [email |-> email, is_valid |-> "none", score |-> NoScore,
     provider |-> provider, error |-> error, details |-> "none"]

OkResult(email, provider, is_valid, score) ==
    [email |-> email, is_valid |-> is_valid, score |-> score,
     provider |-> provider, error |-> "none", details |-> "data"]

(***************************************************************************)
(* Payloads the providers can answer with (bounded).                        *)
(***************************************************************************)
ZBStatus == {"valid", "invalid", "unknown", "missing"}
ZeroBounceBodies ==
    {NonDict} \cup [kind : {"dict"}, status : ZBStatus]

SpokeoBodies ==
    {NonDict} \cup [kind : {"dict"}, found : JVals]

MailboxLayerBodies ==
    {NonDict} \cup
    [kind : {"dict"}, error : {"missing", "present"}, format_valid : JVals,
     mx_found : JVals, smtp_check : JVals, disposable : JVals, free : JVals]

NeutrinoBodies ==
    {NonDict} \cup
    [kind : {"dict"}, valid : JVals, syntax_valid : JVals, disposable : JVals,
     domain_exists : JVals, domain_has_mx : JVals, is_freemail : JVals]

HunterStatus == {"valid", "webmail", "invalid", "missing"}
MissingScore == [kind |-> "missing", n |-> 0, d |-> 1]
HunterScores ==
    {MissingScore, NoScore, StrScore} \cup {Num(h, 1) : h \in {0, 1, MaxHunterScore}}
HunterBodies ==
    {NonDict} \cup
    [kind : {"dict"}, data : {"missing", "null"}, status : {"missing"},
     score : {MissingScore}] \cup
    [kind : {"dict"}, data : {"dict"}, status : HunterStatus, score : HunterScores]

Bodies(svc) ==
    CASE svc = "zerobounce" -> ZeroBounceBodies
      [] svc = "mailboxlayer" -> MailboxLayerBodies
      [] svc = "neutrinoapi" -> NeutrinoBodies
      [] svc = "spokeo" -> SpokeoBodies
      [] svc = "hunter" -> HunterBodies

NetOutcomes(svc) ==
    {Transport, HttpError, BadJson} \cup {Json(b) : b \in Bodies(svc)}

(***************************************************************************)
(* The adapters.  Each returns [result, requests]: the dict verify_email   *)
(* returns and the number of HTTP requests it sent.                         *)
(***************************************************************************)
Returned(result, requests) == [result |-> result, requests |-> requests]

Count(factors) == Cardinality({i \in DOMAIN factors : factors[i]})

ZeroBounceService_verify_email(api_key, user_id, email, net) ==
    IF ~api_key
    THEN Returned(ErrorResult(email, "zerobounce", "API key not provided"), 0)
    ELSE IF net.type # "json"
    THEN Returned(ErrorResult(email, "zerobounce", NetError(net)), 1)
    ELSE IF net.body.kind # "dict"
    THEN Returned(ErrorResult(email, "zerobounce", "AttributeError"), 1)
    ELSE LET is_valid == net.body.status = "valid"
         IN  Returned(OkResult(email, "zerobounce", BoolValid(is_valid),
                               IF is_valid THEN Num(1, 1) ELSE Num(0, 1)), 1)

MailboxLayerService_verify_email(api_key, user_id, email, net) ==
    IF ~api_key
    THEN Returned(ErrorResult(email, "mailboxlayer", "API key not provided"), 0)
    ELSE IF net.type # "json"
    THEN Returned(ErrorResult(email, "mailboxlayer", NetError(net)), 1)
    ELSE IF net.body.kind # "dict"
    THEN Returned(ErrorResult(email, "mailboxlayer", "AttributeError"), 1)
    ELSE IF net.body.error = "present"
    THEN Returned(ErrorResult(email, "mailboxlayer", "provider error info"), 1)
    ELSE LET data == net.body
             is_valid == /\ Truthy(Get(data.format_valid, "false"))
                         /\ Truthy(Get(data.mx_found, "false"))
                         /\ Truthy(Get(data.smtp_check, "false"))
             score_factors ==
                 << Truthy(Get(data.format_valid, "false")),
                    Truthy(Get(data.mx_found, "false")),
                    Truthy(Get(data.smtp_check, "false")),
                    ~Truthy(Get(data.disposable, "true")),
                    IF data.free # "missing" THEN ~Truthy(data.free) ELSE TRUE >>
         IN  Returned(OkResult(email, "mailboxlayer", BoolValid(is_valid),
                               Num(Count(score_factors), Len(score_factors))), 1)

\* variant of neutrino_has_credentials: the user id is not looked at
neutrino_has_credentials_key_only(api_key, user_id) == api_key

\* line 34: self.api_key and self.user_id
neutrino_has_credentials(api_key, user_id) == api_key /\ user_id

NeutrinoAPIService_verify_email(api_key, user_id, email, net) ==
    IF ~neutrino_has_credentials(api_key, user_id)
    THEN Returned(ErrorResult(email, "neutrinoapi", "API credentials not provided"), 0)
    ELSE IF net.type # "json"
    THEN Returned(ErrorResult(email, "neutrinoapi", NetError(net)), 1)
    ELSE IF net.body.kind # "dict"
    THEN Returned(ErrorResult(email, "neutrinoapi", "AttributeError"), 1)
    ELSE LET result == net.body
             is_valid == AsValid(Get(result.valid, "false"))
             score_factors ==
                 << Truthy(Get(result.valid, "false")),
                    Truthy(Get(result.syntax_valid, "false")),
                    ~Truthy(Get(result.disposable, "true")),
                    Truthy(Get(result.domain_exists, "false")),
                    Truthy(Get(result.domain_has_mx, "false")),
                    IF result.is_freemail # "missing"
                    THEN ~Truthy(result.is_freemail) ELSE TRUE >>
         IN  Returned(OkResult(email, "neutrinoapi", is_valid,
                               Num(Count(score_factors), Len(score_factors))), 1)

SpokeoService_verify_email(api_key, user_id, email, net) ==
    IF ~api_key
    THEN Returned(ErrorResult(email, "spokeo", "API key not provided"), 0)
    ELSE IF net.type # "json"
    THEN Returned(ErrorResult(email, "spokeo", NetError(net)), 1)
    ELSE LET data == net.body
             is_valid == IF data.kind = "dict"
                         THEN AsValid(Get(data.found, "false")) ELSE "false"
         IN  Returned(OkResult(email, "spokeo", is_valid,
                               IF is_valid = "true" THEN Num(1, 1) ELSE Num(0, 1)), 1)

HunterService_verify_email(api_key, user_id, email, net) ==
    IF ~api_key
    THEN Returned(ErrorResult(email, "hunter", "API key not provided"), 0)
    ELSE IF net.type # "json"
    THEN Returned(ErrorResult(email, "hunter", NetError(net)), 1)
    ELSE IF net.body.kind # "dict" \/ net.body.data = "null"
    THEN Returned(ErrorResult(email, "hunter", "AttributeError"), 1)
    ELSE LET data == net.body
             status == IF data.data = "missing" THEN "missing" ELSE data.status
             is_valid == status \in {"valid", "webmail"}
             hunter_score ==
                 IF data.data = "missing" \/ data.score.kind = "missing"
                 THEN Num(0, 1) ELSE data.score
         IN  Returned(OkResult(email, "hunter", BoolValid(is_valid), hunter_score), 1)

\* self.services[name].verify_email(email)
Service_verify_email(svc, api_key, user_id, email, net) ==
    CASE svc = "zerobounce" -> ZeroBounceService_verify_email(api_key, user_id, email, net)
      [] svc = "mailboxlayer" -> MailboxLayerService_verify_email(api_key, user_id, email, net)
      [] svc = "neutrinoapi" -> NeutrinoAPIService_verify_email(api_key, user_id, email, net)
      [] svc = "spokeo" -> SpokeoService_verify_email(api_key, user_id, email, net)
      [] svc = "hunter" -> HunterService_verify_email(api_key, user_id, email, net)

(***************************************************************************)
(* The provider answers exercised under the manager (a sample of            *)
(* NetOutcomes that yields every kind of result the manager distinguishes). *)
(***************************************************************************)
SampleOutcomes(svc) ==
    CASE svc = "zerobounce" ->
           {Transport,
            Json([kind |-> "dict", status |-> "valid"]),
            Json([kind |-> "dict", status |-> "invalid"])}
      [] svc = "mailboxlayer" ->
           {HttpError,
            Json([kind |-> "dict", error |-> "missing", format_valid |-> "true",
                  mx_found |-> "true", smtp_check |-> "true",
                  disposable |-> "false", free |-> "true"]),
            Json([kind |-> "dict", error |-> "missing", format_valid |-> "true",
                  mx_found |-> "false", smtp_check |-> "false",
                  disposable |-> "false", free |-> "missing"])}
      [] svc = "neutrinoapi" ->
           {BadJson,
            Json([kind |-> "dict", valid |-> "true", syntax_valid |-> "true",
                  disposable |-> "false", domain_exists |-> "true",
                  domain_has_mx |-> "true", is_freemail |-> "true"]),
            Json([kind |-> "dict", valid |-> "false", syntax_valid |-> "true",
                  disposable |-> "missing", domain_exists |-> "missing",
                  domain_has_mx |-> "missing", is_freemail |-> "missing"])}
      [] svc = "spokeo" ->
           {Transport,
            Json([kind |-> "dict", found |-> "true"]),
            Json(NonDict)}
      [] svc = "hunter" ->
           {Transport,
            Json([kind |-> "dict", data |-> "dict", status |-> "valid",
                  score |-> Num(MaxHunterScore, 1)]),
            Json([kind |-> "dict", data |-> "dict", status |-> "webmail",
                  score |-> StrScore])}

(***************************************************************************)
(* State.                                                                   *)
(***************************************************************************)
VARIABLES
    api_key,            \* service name -> whether self.api_key is set
    user_id,            \* whether NeutrinoAPIService.user_id is set
    db,                 \* the email_verification table, in insertion order
    pc,                 \* "idle", or "collect" inside the as_completed loop
    email,              \* verify_email's argument
    selector,           \* verify_email's service_name argument, "" when omitted
    available_services, \* sequence of the names dispatched
    futures,            \* service name -> [state, result] of its future
    results,            \* verify_email's local dict
    valid_count,
    total_score,
    service_count,
    ret,                \* the value the last call returned
    called,             \* adapters whose verify_email the last call invoked
    requests,           \* HTTP requests the last call sent
    store_calls,        \* _store_verification_result calls of the last call
    store_failures,     \* failed commits so far
    clock,              \* datetime.utcnow(), in ticks
    hist,               \* what the last get_verification_history call returned
    bulk,               \* the bulk_verify call: its arguments, progress and return
    calls,              \* verify_email calls made so far by the caller
    a_in,               \* adapter specification: the inputs of one call
    a_out,              \* adapter specification: what the call returned
    frames              \* concurrent callers: caller -> the locals of its verify_email call

vars == <<api_key, user_id, db, pc, email, selector, available_services, futures, results,
          valid_count, total_score, service_count, ret, called, requests,
          store_calls, store_failures, clock, hist, bulk, calls, a_in, a_out, frames>>

mgr_vars == <<api_key, user_id, db, pc, email, selector, available_services, futures, results,
              valid_count, total_score, service_count, ret, called, requests,
              store_calls, store_failures, clock, hist, bulk, calls, frames>>

\* the state of the history and bulk operations and of the clock
seq_vars == <<clock, hist, bulk, calls>>

NoResult == [email |-> "", is_valid |-> "none", score |-> NoScore,
             provider |-> "", error |-> "none", details |-> "none"]
NoFuture == [state |-> "none", result |-> NoResult]
NoReturn == [kind |-> "none"]
EmptyResults == [s \in {} |-> NoResult]
NoAdapterCall == [state |-> "none"]
NoHistory == [state |-> "none", email |-> "", rows |-> <<>>, failed |-> FALSE]
NoBulk == [state |-> "none", emails |-> <<>>, selector |-> "", results |-> <<>>,
           pending |-> FALSE, ret |-> NoReturn]

\* the threads that call verify_email on the one manager at the same time
Callers == {1, 2}
\* the locals of a verify_email call that has not started
NoFrame == [pc |-> "idle", email |-> "", available_services |-> <<>>,
            futures |-> [s \in ServiceNames |-> NoFuture], results |-> EmptyResults,
            valid_count |-> 0, total_score |-> Num(0, 1), service_count |-> 0,
            ret |-> NoReturn]

\* variant of get_available_services: the key is not looked at
get_available_services_all == services

\* get_available_services
get_available_services ==
    SelectSeq(services, LAMBDA name : api_key[name])

\* the email argument when the caller passes None
NoneEmail == "None"

\* variant of violates_not_null: the columns accept NULL
violates_not_null_never(result) == FALSE

\* database.py lines 94 and 97: email and provider are nullable=False, so the
\* commit of a row without one of them raises IntegrityError
violates_not_null(result) == result.email = NoneEmail \/ result.provider = "None"

\* variant of store_verification_result: results that carry an error are not
\* stored
store_verification_result_unless_error(table, result, ok) ==
    IF ok /\ ~violates_not_null(result) /\ result.error = "none"
    THEN Append(table, [id |-> Len(table) + 1,
                        email |-> result.email, is_valid |-> result.is_valid,
                        score |-> result.score, provider |-> result.provider,
                        verification_date |-> clock,
                        details |-> result.details])
    ELSE table

\* variant of store_verification_result: an address that a provider has a
\* row for is not stored again
store_verification_result_once(table, result, ok) ==
    IF /\ ok
       /\ ~violates_not_null(result)
       /\ ~\E i \in 1..Len(table) : /\ table[i].email = result.email
                                     /\ table[i].provider = result.provider
    THEN Append(table, [id |-> Len(table) + 1,
                        email |-> result.email, is_valid |-> result.is_valid,
                        score |-> result.score, provider |-> result.provider,
                        verification_date |-> clock,
                        details |-> result.details])
    ELSE table

\* variant of store_verification_result: the row of the same address and
\* provider is replaced when there is one
store_verification_result_upsert(table, result, ok) ==
    LET row == [id |-> Len(table) + 1,
                email |-> result.email, is_valid |-> result.is_valid,
                score |-> result.score, provider |-> result.provider,
                verification_date |-> clock,
                details |-> result.details]
        same(r) == r.email = result.email /\ r.provider = result.provider
    IN  IF ~ok \/ violates_not_null(result)
        THEN table
        ELSE IF \E i \in 1..Len(table) : same(table[i])
        THEN [i \in 1..Len(table) |->
                IF same(table[i]) THEN [row EXCEPT !.id = table[i].id] ELSE table[i]]
        ELSE Append(table, row)

\* _store_verification_result: the table after the call; ok is whether the
\* session could be opened and the commit succeeded. The column default
\* datetime.utcnow stamps the row.
store_verification_result(table, result, ok) ==
    IF ok /\ ~violates_not_null(result)
    THEN Append(table, [id |-> Len(table) + 1,
                        email |-> result.email, is_valid |-> result.is_valid,
                        score |-> result.score, provider |-> result.provider,
                        verification_date |-> clock,
                        details |-> result.details])
    ELSE table

Range(seq) == {seq[i] : i \in 1..Len(seq)}

MgrInit ==
    /\ api_key \in [ServiceNames -> BOOLEAN]
    /\ user_id \in BOOLEAN
    /\ db = <<>>
    /\ pc = "idle"
    /\ email = ""
    /\ selector = ""
    /\ available_services = <<>>
    /\ futures = [s \in ServiceNames |-> NoFuture]
    /\ results = EmptyResults
    /\ valid_count = 0
    /\ total_score = Num(0, 1)
    /\ service_count = 0
    /\ ret = NoReturn
    /\ called = {}
    /\ requests = 0
    /\ store_calls = 0
    /\ store_failures = 0
    /\ clock = 0
    /\ hist = NoHistory
    /\ bulk = NoBulk
    /\ calls = 0
    /\ frames = [c \in Callers |-> NoFrame]

Init ==
    /\ MgrInit
    /\ a_in = NoAdapterCall
    /\ a_out = NoAdapterCall

(***************************************************************************)
(* EmailVerificationManager.verify_email                                    *)
(***************************************************************************)
\* variants of aggregate_is_valid: a strict majority, a minority reported as
\* absent, and the count > 0 guard left out
aggregate_is_valid_strict(count, dispatched) ==
    IF count > 0 THEN BoolValid(2 * count > dispatched) ELSE "none"

aggregate_is_valid_minority_absent(count, dispatched) ==
    IF count > 0 /\ 2 * count >= dispatched THEN "true" ELSE "none"

aggregate_is_valid_unguarded(count, dispatched) ==
    BoolValid(2 * count >= dispatched)

\* lines 122-125: the aggregate validity
aggregate_is_valid(count, dispatched) ==
    IF count > 0 THEN BoolValid(2 * count >= dispatched) ELSE "none"

\* variant of aggregate_score: 0.0 when no service reported a score
aggregate_score_zero_default(total, count) ==
    IF count > 0 THEN DivBy(total, count) ELSE Num(0, 1)

\* lines 127-129: the aggregate score
aggregate_score(total, count) ==
    IF count > 0 THEN DivBy(total, count) ELSE NoScore

\* line 108: whether a result counts toward valid_count
counts_valid(service_result) == service_result.is_valid = "true"

\* variant of has_score: every result is counted in the divisor
has_score_always(service_result) == TRUE

\* line 111: whether a result's score is not None
has_score(service_result) == service_result.score.kind # "absent"

\* line 112: total_score += score raises TypeError on a score that is no number
raises_on_score(service_result) == service_result.score.kind = "str"

\* variant of exception_entry: the entry does not name its provider
exception_entry_unattributed(addr, name, error) == ErrorResult(addr, "", error)

\* lines 114-120: the entry the except branch leaves for a service
exception_entry(addr, name, error) == ErrorResult(addr, name, error)

\* lines 66-70 and 80-84: the result-shaped error objects
error_object(addr, error) ==
    [kind |-> "error", email |-> addr, error |-> error, verified |-> FALSE]

\* variant of service_not_found: the message does not name the service
service_not_found_anonymous(service_name) == "Service not found"

\* line 68: f"Service '{service_name}' not found"
service_not_found(service_name) == "Service '" \o service_name \o "' not found"

\* variant of single_return: the adapter's result comes back wrapped
single_return_wrapped(result) ==
    [kind |-> "result",
     result |-> [result EXCEPT !.details = "wrapped"]]

\* lines 72-75: the adapter's result is returned as it is
single_return(result) == [kind |-> "result", result |-> result]

\* variant of store_raises: a failed write reaches the caller
store_raises_on_failure(ok) == ~ok

\* lines 224-225: the except branch of _store_verification_result logs the
\* exception of a failed write; whether the call raises to its caller
store_raises(ok) == FALSE

\* whether another failed commit fits the failure budget
StoreOutcomes == IF store_failures < MaxStoreFailures THEN BOOLEAN ELSE {TRUE}

\* verify_email(email, service_name) with a service name: lines 64-75
VerifySingle(addr, service_name) ==
    /\ pc = "idle"
    /\ email' = addr
    /\ selector' = service_name
    /\ available_services' = <<>>
    /\ futures' = [s \in ServiceNames |-> NoFuture]
    /\ results' = EmptyResults
    /\ valid_count' = 0
    /\ total_score' = Num(0, 1)
    /\ service_count' = 0
    /\ IF service_name \notin ServiceNames
       THEN /\ ret' = error_object(addr, service_not_found(service_name))
            /\ called' = {}
            /\ requests' = 0
            /\ store_calls' = 0
            /\ UNCHANGED <<db, store_failures>>
       ELSE \E net \in SampleOutcomes(service_name), ok \in StoreOutcomes :
              LET out == Service_verify_email(service_name, api_key[service_name],
                                              user_id, addr, net)
              IN  /\ called' = {service_name}
                  /\ requests' = out.requests
                  /\ db' = store_verification_result(db, out.result, ok)
                  /\ store_calls' = 1
                  /\ store_failures' = store_failures + (IF ok THEN 0 ELSE 1)
                  /\ ret' = IF store_raises(ok)
                             THEN [kind |-> "raised"]
                             ELSE single_return(out.result)
    /\ UNCHANGED <<api_key, user_id, pc, a_in, a_out, frames>>

\* verify_email(email) up to the submission of the tasks: lines 76-96
AggregateStart(addr) ==
    /\ pc = "idle"
    /\ LET available == get_available_services
       IN  /\ email' = addr
           /\ selector' = ""
           /\ results' = EmptyResults
           /\ valid_count' = 0
           /\ total_score' = Num(0, 1)
           /\ service_count' = 0
           /\ called' = {}
           /\ requests' = 0
           /\ store_calls' = 0
           /\ IF Len(available) = 0
              THEN /\ ret' = error_object(addr,
                               "No verification services are configured with API keys")
                   /\ available_services' = <<>>
                   /\ futures' = [s \in ServiceNames |-> NoFuture]
                   /\ pc' = "idle"
              ELSE /\ ret' = NoReturn
                   /\ available_services' = available
                   /\ futures' = [s \in ServiceNames |->
                                    IF s \in Range(available)
                                    THEN [state |-> "running", result |-> NoResult]
                                    ELSE NoFuture]
                   /\ pc' = "collect"
    /\ UNCHANGED <<api_key, user_id, db, store_failures, a_in, a_out, frames>>

\* variant of AdapterTask: the worker thread counts its own result into the
\* call's valid_count
AdapterTask_accumulating(name) ==
    /\ pc = "collect"
    /\ futures[name].state = "running"
    /\ \E net \in SampleOutcomes(name) :
         LET out == Service_verify_email(name, api_key[name], user_id, email, net)
         IN  /\ futures' = [futures EXCEPT ![name] =
                              [state |-> "done", result |-> out.result]]
             /\ requests' = requests + out.requests
             /\ valid_count' = valid_count + (IF counts_valid(out.result) THEN 1 ELSE 0)
    /\ called' = called \cup {name}
    /\ UNCHANGED <<api_key, user_id, db, pc, email, selector, available_services,
                   results, total_score, service_count, ret,
                   store_calls, store_failures, a_in, a_out, frames>>

\* a worker thread runs self.services[name].verify_email(email): line 94
AdapterTask(name) ==
    /\ pc = "collect"
    /\ futures[name].state = "running"
    /\ \E net \in SampleOutcomes(name) :
         LET out == Service_verify_email(name, api_key[name], user_id, email, net)
         IN  /\ futures' = [futures EXCEPT ![name] =
                              [state |-> "done", result |-> out.result]]
             /\ requests' = requests + out.requests
    /\ called' = called \cup {name}
    /\ UNCHANGED <<api_key, user_id, db, pc, email, selector, available_services,
                   results, valid_count, total_score, service_count, ret,
                   store_calls, store_failures, a_in, a_out, frames>>

\* one iteration of the as_completed loop: lines 98-120
Collect(service_name) ==
    /\ pc = "collect"
    /\ futures[service_name].state = "done"
    /\ \E ok \in StoreOutcomes :
         LET service_result == futures[service_name].result
             stored == ~store_raises(ok)
             scored == stored /\ has_score(service_result)
             raised == scored /\ raises_on_score(service_result)
             entry == IF ~stored
                      THEN exception_entry(email, service_name, "store")
                      ELSE IF raised
                      THEN exception_entry(email, service_name, "TypeError")
                      ELSE service_result
         IN  /\ results' = [s \in DOMAIN results \cup {service_name} |->
                              IF s = service_name THEN entry ELSE results[s]]
             /\ db' = store_verification_result(db, service_result, ok)
             /\ store_calls' = store_calls + 1
             /\ store_failures' = store_failures + (IF ok THEN 0 ELSE 1)
             /\ valid_count' = valid_count +
                                 (IF stored /\ counts_valid(service_result)
                                  THEN 1 ELSE 0)
             /\ total_score' = IF scored /\ ~raised
                               THEN Plus(total_score, service_result.score)
                               ELSE total_score
             /\ service_count' = service_count + (IF scored /\ ~raised THEN 1 ELSE 0)
    /\ futures' = [futures EXCEPT ![service_name].state = "collected"]
    /\ UNCHANGED <<api_key, user_id, pc, email, selector, available_services, ret,
                   called, requests, a_in, a_out, frames>>

\* variant of loop_exhausted: the loop is left after the first future
loop_left_after_first ==
    \E s \in Range(available_services) : futures[s].state = "collected"

\* lines 92-98: as_completed yields every submitted future once it is done, and
\* leaving the with block joins the pool, so the loop ends when every future
\* has been handled
loop_exhausted ==
    \A s \in Range(available_services) : futures[s].state = "collected"

\* the loop and the executor are left and the aggregate is returned: lines 122-138
AggregateReturn ==
    /\ pc = "collect"
    /\ loop_exhausted
    /\ ret' = [kind |-> "aggregate",
               email |-> email,
               is_valid |-> aggregate_is_valid(valid_count, Len(available_services)),
               score |-> aggregate_score(total_score, service_count),
               results |-> results,
               verified_by |-> Cardinality(DOMAIN results)]
    /\ pc' = "idle"
    /\ UNCHANGED <<api_key, user_id, db, email, selector, available_services,
                   futures, results, valid_count, total_score, service_count,
                   called, requests, store_calls, store_failures, a_in, a_out, frames>>

\* names that are no key of self.services; the lookup is case sensitive
UnknownService == "nosuchservice"
UnknownServices == {UnknownService, "ZeroBounce"}
Selectors == ServiceNames \cup UnknownServices

\* the manager has been constructed and no call has been made yet
Fresh == pc = "idle" /\ ret = NoReturn

\* one verify_email call on a freshly constructed manager
Next ==
    \/ \E addr \in Emails, service_name \in Selectors :
         Fresh /\ VerifySingle(addr, service_name) /\ UNCHANGED seq_vars
    \/ \E addr \in Emails : Fresh /\ AggregateStart(addr) /\ UNCHANGED seq_vars
    \/ \E name \in ServiceNames : AdapterTask(name) /\ UNCHANGED seq_vars
    \/ \E service_name \in ServiceNames : Collect(service_name) /\ UNCHANGED seq_vars
    \/ AggregateReturn /\ UNCHANGED seq_vars

Spec == Init /\ [][Next]_vars

(***************************************************************************)
(* An aggregate call whose providers may fail to answer. requests.get and   *)
(* requests.post are called without a timeout argument and as_completed is  *)
(* called without one, so a provider that accepts the connection and never  *)
(* answers leaves the worker thread inside the request.                     *)
(***************************************************************************)
\* most adapters holding a key in this specification
MaxLiveEnabled == 3

\* whether the adapter passes its credential guard and sends a request
sends_request(name) ==
    Service_verify_email(name, api_key[name], user_id, email, Transport).requests = 1

\* the worker thread of a service sends its request and the provider never
\* answers: the thread stays in requests.get, its future is never done
AdapterHang(name) ==
    /\ pc = "collect"
    /\ futures[name].state = "running"
    /\ sends_request(name)
    /\ futures' = [futures EXCEPT ![name].state = "blocked"]
    /\ requests' = requests + 1
    /\ called' = called \cup {name}
    /\ UNCHANGED <<api_key, user_id, db, pc, email, selector, available_services,
                   results, valid_count, total_score, service_count, ret,
                   store_calls, store_failures, seq_vars, a_in, a_out, frames>>

LiveInit ==
    /\ Init
    /\ Cardinality({s \in ServiceNames : api_key[s]}) <= MaxLiveEnabled

LiveNext ==
    \/ \E addr \in Emails : Fresh /\ AggregateStart(addr) /\ UNCHANGED seq_vars
    \/ \E name \in ServiceNames : AdapterTask(name) /\ UNCHANGED seq_vars
    \/ \E name \in ServiceNames : AdapterHang(name)
    \/ \E service_name \in ServiceNames : Collect(service_name) /\ UNCHANGED seq_vars
    \/ AggregateReturn /\ UNCHANGED seq_vars

\* every thread that can take a step takes it: a worker whose provider answers
\* completes, the loop handles a completed future, the call returns
SpecLive ==
    /\ LiveInit
    /\ [][LiveNext]_vars
    /\ \A s \in ServiceNames :
         /\ WF_vars(AdapterTask(s) /\ UNCHANGED seq_vars)
         /\ WF_vars(Collect(s) /\ UNCHANGED seq_vars)
    /\ WF_vars(AggregateReturn /\ UNCHANGED seq_vars)

(***************************************************************************)
(* Sequences of verify_email calls, the clock and the history query.        *)
(***************************************************************************)
\* most verify_email calls in a sequence
MaxCalls == 3

\* the adapters that may hold a key in a sequence of calls
SeqServices == {"zerobounce"}
\* the service names a sequence of calls passes
SeqSelectors == SeqServices \cup {UnknownService}

\* variant of first_in_order: ascending dates
first_in_order_ascending(rows) ==
    {r \in rows : \A other \in rows : r.verification_date <= other.verification_date}

\* line 190: order_by(verification_date.desc()): the rows that may come first;
\* the order of rows with equal dates is the database's choice
first_in_order(rows) ==
    {r \in rows : \A other \in rows : r.verification_date >= other.verification_date}

\* the sequences .all() may return for a set of rows
RECURSIVE Ordered(_)
Ordered(rows) ==
    IF rows = {}
    THEN {<<>>}
    ELSE UNION {{<<r>> \o rest : rest \in Ordered(rows \ {r})} :
                  r \in first_in_order(rows)}

\* lines 188-196: the filtered, ordered query; a query that raises is logged
\* and leaves results = []
get_verification_history(table, addr, ok) ==
    IF ok
    THEN Ordered({table[i] : i \in {j \in 1..Len(table) : table[j].email = addr}})
    ELSE {<<>>}

\* get_verification_history(email): lines 174-198
GetHistory(addr) ==
    /\ pc = "idle"
    /\ \E ok \in BOOLEAN :
         \E rows \in get_verification_history(db, addr, ok) :
           hist' = [state |-> "returned", email |-> addr, rows |-> rows,
                    failed |-> ~ok]
    /\ UNCHANGED <<api_key, user_id, db, pc, email, selector, available_services,
                   futures, results, valid_count, total_score, service_count,
                   ret, called, requests, store_calls, store_failures,
                   clock, bulk, calls, a_in, a_out, frames>>

\* datetime.utcnow advances; two rows written before it does carry equal dates
Tick ==
    /\ Len(db) > 0
    /\ db[Len(db)].verification_date = clock
    /\ clock' = clock + 1
    /\ UNCHANGED <<api_key, user_id, db, pc, email, selector, available_services,
                   futures, results, valid_count, total_score, service_count,
                   ret, called, requests, store_calls, store_failures,
                   hist, bulk, calls, a_in, a_out, frames>>

(***************************************************************************)
(* bulk_verify: the adapters' and the manager's.                            *)
(***************************************************************************)
\* longest list of addresses passed to bulk_verify
MaxBulk == 3

RECURSIVE SeqsUpTo(_)
SeqsUpTo(n) ==
    IF n = 0 THEN {<<>>}
    ELSE LET shorter == SeqsUpTo(n - 1)
         IN  shorter \cup {Append(q, e) : q \in {x \in shorter : Len(x) = n - 1},
                                           e \in Emails}
\* the lists of addresses passed to bulk_verify
BulkInputs == SeqsUpTo(MaxBulk)

\* the dicts bulk_verify returns
bulk_error(error) == [kind |-> "error", error |-> error]
bulk_results(per_address) == [kind |-> "results", results |-> per_address]
provider_json(body) == [kind |-> "json", body |-> body]
BulkReturned(value, sent) == [value |-> value, requests |-> sent]

\* what the providers' bulk endpoints can answer with
SubmissionOutcomes == {Transport, HttpError, Json([kind |-> "dict", file_id |-> "f1"])}

\* ZeroBounceService.bulk_verify and HunterService.bulk_verify: one POST of
\* the batch, whose JSON answer is returned as it is
ZeroBounceService_bulk_verify(key, emails, net) ==
    IF ~key
    THEN BulkReturned(bulk_error("API key not provided"), 0)
    ELSE IF net.type # "json"
    THEN BulkReturned(bulk_error(NetError(net)), 1)
    ELSE BulkReturned(provider_json(net.body), 1)

HunterService_bulk_verify(key, emails, net) ==
    IF ~key
    THEN BulkReturned(bulk_error("API key not provided"), 0)
    ELSE IF net.type # "json"
    THEN BulkReturned(bulk_error(NetError(net)), 1)
    ELSE BulkReturned(provider_json(net.body), 1)

\* MailboxLayerService, NeutrinoAPIService and SpokeoService bulk_verify: the
\* adapter's own verify_email for each address in turn
sequential_bulk_verify(svc, key, uid, emails, nets) ==
    LET outs == [i \in 1..Len(emails) |->
                   Service_verify_email(svc, key, uid, emails[i], nets[i])]
    IN  BulkReturned(bulk_results([i \in 1..Len(emails) |-> outs[i].result]),
                     Cardinality({i \in 1..Len(emails) : outs[i].requests = 1}))

MailboxLayerService_bulk_verify(key, uid, emails, nets) ==
    IF ~key
    THEN BulkReturned(bulk_error("API key not provided"), 0)
    ELSE sequential_bulk_verify("mailboxlayer", key, uid, emails, nets)

NeutrinoAPIService_bulk_verify(key, uid, emails, nets) ==
    IF ~neutrino_has_credentials(key, uid)
    THEN BulkReturned(bulk_error("API credentials not provided"), 0)
    ELSE sequential_bulk_verify("neutrinoapi", key, uid, emails, nets)

SpokeoService_bulk_verify(key, uid, emails, nets) ==
    IF ~key
    THEN BulkReturned(bulk_error("API key not provided"), 0)
    ELSE sequential_bulk_verify("spokeo", key, uid, emails, nets)

\* the answers the provider may give to the requests of one bulk_verify call
BulkNets(svc, emails) ==
    IF svc \in {"zerobounce", "hunter"}
    THEN [1..1 -> SubmissionOutcomes]
    ELSE [1..Len(emails) -> SampleOutcomes(svc)]

\* self.services[service_name].bulk_verify(emails)
Service_bulk_verify(svc, key, uid, emails, nets) ==
    CASE svc = "zerobounce" -> ZeroBounceService_bulk_verify(key, emails, nets[1])
      [] svc = "hunter" -> HunterService_bulk_verify(key, emails, nets[1])
      [] svc = "mailboxlayer" -> MailboxLayerService_bulk_verify(key, uid, emails, nets)
      [] svc = "neutrinoapi" -> NeutrinoAPIService_bulk_verify(key, uid, emails, nets)
      [] svc = "spokeo" -> SpokeoService_bulk_verify(key, uid, emails, nets)

\* variant of no_emails: the empty list is not rejected
no_emails_accepted(emails) == FALSE

\* line 151: if not emails
no_emails(emails) == Len(emails) = 0

\* variant of next_email: the list is walked from its end
next_email_reversed(emails, done) == emails[Len(emails) - Len(done)]

\* line 169: for email in emails, after the addresses already done
next_email(emails, done) == emails[Len(done) + 1]

\* bulk_verify(emails, service_name) up to its first return or to the loop of
\* lines 168-170
BulkCall(emails, service_name) ==
    /\ pc = "idle"
    /\ bulk.state = "none"
    /\ LET returns(value) ==
              [state |-> "returned", emails |-> emails, selector |-> service_name,
               results |-> <<>>, pending |-> FALSE, ret |-> value]
       IN  IF no_emails(emails)
           THEN /\ bulk' = returns(bulk_error("No emails provided"))
                /\ UNCHANGED <<called, requests>>
           ELSE IF service_name # "" /\ service_name \notin ServiceNames
           THEN /\ bulk' = returns(bulk_error(service_not_found(service_name)))
                /\ UNCHANGED <<called, requests>>
           ELSE IF service_name # ""
           THEN \E nets \in BulkNets(service_name, emails) :
                  LET out == Service_bulk_verify(service_name, api_key[service_name],
                                                 user_id, emails, nets)
                  IN  /\ bulk' = returns(out.value)
                      /\ called' = {service_name}
                      /\ requests' = out.requests
           ELSE /\ bulk' = [state |-> "running", emails |-> emails, selector |-> "",
                            results |-> <<>>, pending |-> FALSE, ret |-> NoReturn]
                /\ UNCHANGED <<called, requests>>
    /\ UNCHANGED <<api_key, user_id, db, pc, email, selector, available_services,
                   futures, results, valid_count, total_score, service_count,
                   ret, store_calls, store_failures, clock, hist, calls,
                   a_in, a_out, frames>>

\* line 170: self.verify_email(email) is called for the next address
BulkVerifyOne ==
    /\ bulk.state = "running"
    /\ ~bulk.pending
    /\ Len(bulk.results) < Len(bulk.emails)
    /\ AggregateStart(next_email(bulk.emails, bulk.results))
    /\ bulk' = [bulk EXCEPT !.pending = TRUE]
    /\ UNCHANGED <<clock, hist, calls>>

\* line 170: results.append of what self.verify_email returned
BulkAppend ==
    /\ bulk.state = "running"
    /\ bulk.pending
    /\ pc = "idle"
    /\ bulk' = [bulk EXCEPT !.results = Append(@, ret), !.pending = FALSE]
    /\ UNCHANGED <<api_key, user_id, db, pc, email, selector, available_services,
                   futures, results, valid_count, total_score, service_count,
                   ret, called, requests, store_calls, store_failures,
                   clock, hist, calls, a_in, a_out, frames>>

\* line 171: return {"results": results}
BulkReturn ==
    /\ bulk.state = "running"
    /\ ~bulk.pending
    /\ Len(bulk.results) = Len(bulk.emails)
    /\ bulk' = [bulk EXCEPT !.state = "returned", !.ret = bulk_results(bulk.results)]
    /\ UNCHANGED <<api_key, user_id, db, pc, email, selector, available_services,
                   futures, results, valid_count, total_score, service_count,
                   ret, called, requests, store_calls, store_failures,
                   clock, hist, calls, a_in, a_out, frames>>

BulkSelectors == ServiceNames \cup {UnknownService, ""}

\* a manager on which at most one adapter holds a key
BulkInit ==
    /\ Init
    /\ \A s, t \in ServiceNames : (api_key[s] /\ api_key[t]) => s = t

\* one bulk_verify call on a freshly constructed manager
BulkNext ==
    \/ \E emails \in BulkInputs, service_name \in BulkSelectors :
         BulkCall(emails, service_name)
    \/ BulkVerifyOne
    \/ \E name \in ServiceNames : AdapterTask(name) /\ UNCHANGED seq_vars
    \/ \E service_name \in ServiceNames : Collect(service_name) /\ UNCHANGED seq_vars
    \/ AggregateReturn /\ UNCHANGED seq_vars
    \/ BulkAppend
    \/ BulkReturn

SpecBulk == BulkInit /\ [][BulkNext]_vars

(***************************************************************************)
(* Sequences of verify_email, bulk_verify and history calls of one caller.  *)
(***************************************************************************)
SeqInit ==
    /\ Init
    /\ \A s \in ServiceNames \ SeqServices : ~api_key[s]
    /\ ~user_id

SeqNext ==
    \/ \E addr \in Emails, service_name \in SeqSelectors :
         /\ calls < MaxCalls
         /\ VerifySingle(addr, service_name)
         /\ calls' = calls + 1
         /\ UNCHANGED <<clock, hist, bulk>>
    \/ \E addr \in Emails :
         /\ calls < MaxCalls
         /\ AggregateStart(addr)
         /\ calls' = calls + 1
         /\ UNCHANGED <<clock, hist, bulk>>
    \/ \E name \in ServiceNames : AdapterTask(name) /\ UNCHANGED seq_vars
    \/ \E service_name \in ServiceNames : Collect(service_name) /\ UNCHANGED seq_vars
    \/ AggregateReturn /\ UNCHANGED seq_vars
    \/ \E addr \in Emails : GetHistory(addr)
    \/ Tick

SpecSeq == SeqInit /\ [][SeqNext]_vars

(***************************************************************************)
(* Aggregate verify_email calls one after the other.                        *)
(***************************************************************************)
\* most aggregate calls in a row
MaxRepeat == 2

\* the adapters that may hold a key when aggregate calls are repeated
RepeatServices == {"zerobounce", "mailboxlayer"}

RepeatInit ==
    /\ Init
    /\ \A s \in ServiceNames \ RepeatServices : ~api_key[s]
    /\ ~user_id

RepeatNext ==
    \/ \E addr \in Emails :
         /\ calls < MaxRepeat
         /\ AggregateStart(addr)
         /\ calls' = calls + 1
         /\ UNCHANGED <<clock, hist, bulk>>
    \/ \E name \in ServiceNames : AdapterTask(name) /\ UNCHANGED seq_vars
    \/ \E service_name \in ServiceNames : Collect(service_name) /\ UNCHANGED seq_vars
    \/ AggregateReturn /\ UNCHANGED seq_vars

SpecRepeat == RepeatInit /\ [][RepeatNext]_vars

(***************************************************************************)
(* Every operation of the manager in sequence: verify_email with and        *)
(* without a service name, bulk_verify and get_verification_history, also   *)
(* for an address argument that is None.                                    *)
(***************************************************************************)
\* most addresses handed to verify_email or bulk_verify in a sequence
MaxOps == 2

OpsEmails == {"a@x.com", NoneEmail}

RECURSIVE AddressLists(_, _)
AddressLists(addresses, n) ==
    IF n = 0 THEN {<<>>}
    ELSE LET shorter == AddressLists(addresses, n - 1)
         IN  shorter \cup {Append(q, e) : q \in {x \in shorter : Len(x) = n - 1},
                                           e \in addresses}

\* addresses handed to verify_email or to bulk_verify so far
Verified == calls + Len(bulk.emails)
\* the caller makes one call at a time
CallerIdle == pc = "idle" /\ bulk.state # "running"

OpsNext ==
    \/ \E addr \in OpsEmails, service_name \in SeqSelectors :
         /\ CallerIdle
         /\ Verified < MaxOps
         /\ VerifySingle(addr, service_name)
         /\ calls' = calls + 1
         /\ UNCHANGED <<clock, hist, bulk>>
    \/ \E addr \in OpsEmails :
         /\ CallerIdle
         /\ Verified < MaxOps
         /\ AggregateStart(addr)
         /\ calls' = calls + 1
         /\ UNCHANGED <<clock, hist, bulk>>
    \/ \E name \in ServiceNames : AdapterTask(name) /\ UNCHANGED seq_vars
    \/ \E service_name \in ServiceNames : Collect(service_name) /\ UNCHANGED seq_vars
    \/ AggregateReturn /\ UNCHANGED seq_vars
    \/ \E emails \in AddressLists(OpsEmails, MaxOps),
          service_name \in SeqSelectors \cup {""} :
         /\ Verified + Len(emails) <= MaxOps
         /\ BulkCall(emails, service_name)
    \/ BulkVerifyOne
    \/ BulkAppend
    \/ BulkReturn
    \/ \E addr \in OpsEmails : CallerIdle /\ GetHistory(addr)

SpecOps == SeqInit /\ [][OpsNext]_vars

(***************************************************************************)
(* The adapters on their own: one verify_email call of one adapter, for    *)
(* every credential state and every answer of the provider.                 *)
(***************************************************************************)
AdapterInputs(svc) ==
    [state : {"called"}, svc : {svc}, api_key : BOOLEAN, user_id : BOOLEAN,
     email : Emails, net : NetOutcomes(svc)]

AdapterInit ==
    /\ MgrInit
    /\ \A s \in ServiceNames : ~api_key[s]
    /\ ~user_id
    /\ \E svc \in ServiceNames : a_in \in AdapterInputs(svc)
    /\ a_out = NoAdapterCall

AdapterCall(svc) ==
    /\ a_in.state = "called"
    /\ a_in.svc = svc
    /\ a_out = NoAdapterCall
    /\ LET out == Service_verify_email(svc, a_in.api_key, a_in.user_id,
                                        a_in.email, a_in.net)
       IN  a_out' = [state |-> "returned", result |-> out.result,
                     requests |-> out.requests]
    /\ UNCHANGED <<a_in, mgr_vars>>

AdapterNext == \E svc \in ServiceNames : AdapterCall(svc)

SpecAdapter == AdapterInit /\ [][AdapterNext]_vars

(***************************************************************************)
(* Properties of one aggregate verify_email call (Spec).                    *)
(***************************************************************************)
Dispatched == Range(available_services)
EnabledCount == Len(available_services)
AggregateReturned == pc = "idle" /\ ret.kind = "aggregate"
\* what the adapter of a dispatched service returned
AdapterResult(s) == futures[s].result
TrueCount == Cardinality({s \in Dispatched : AdapterResult(s).is_valid = "true"})
CeilHalf(n) == (n + 1) \div 2

\* C1: an aggregate call with N >= 1 enabled adapters, valid_count of which
\* returned is_valid == true, is valid overall iff valid_count >= ceil(N/2);
\* errored and unknown adapters count in N only.
C1_MajorityRule ==
    AggregateReturned =>
        /\ EnabledCount >= 1
        /\ (ret.is_valid = "true") <=> (TrueCount >= CeilHalf(EnabledCount))

\* C1 witness: 2 true of 4, one of the others an errored adapter, deemed valid
C1_Witness ==
    /\ AggregateReturned
    /\ EnabledCount = 4
    /\ TrueCount = 2
    /\ \E s \in Dispatched : AdapterResult(s).error # "none"
    /\ ret.is_valid = "true"

\* C2 as stated: when at least one but fewer than ceil(N/2) adapters report
\* true, the aggregate is_valid is absent (None), not false.
C2_MinorityIsAbsent ==
    (AggregateReturned /\ TrueCount > 0 /\ TrueCount < CeilHalf(EnabledCount))
        => ret.is_valid = "none"

\* C2 amended: when at least one but fewer than ceil(N/2) adapters report
\* true, the aggregate is_valid is false, not absent.
C2_MinorityIsFalse ==
    (AggregateReturned /\ TrueCount > 0 /\ TrueCount < CeilHalf(EnabledCount))
        => ret.is_valid = "false"

\* C2 witness: 4 adapters reporting {true, false, unknown, ...}, 1 < 2
C2_Witness ==
    /\ AggregateReturned
    /\ EnabledCount = 4
    /\ TrueCount = 1
    /\ \E s \in Dispatched : AdapterResult(s).is_valid = "false"
    /\ \E s \in Dispatched : AdapterResult(s).is_valid = "none"
    /\ ret.is_valid = "false"

\* C3: when no dispatched adapter reports true (all false, unknown or errors)
\* the aggregate is_valid is absent (None), never false.
C3_NoTrueIsAbsent ==
    (AggregateReturned /\ TrueCount = 0) => ret.is_valid = "none"

\* C3 witness: several adapters, one reporting false, one errored, none true
C3_Witness ==
    /\ AggregateReturned
    /\ EnabledCount >= 2
    /\ TrueCount = 0
    /\ \E s \in Dispatched : AdapterResult(s).is_valid = "false"
    /\ \E s \in Dispatched : AdapterResult(s).error # "none"
    /\ ret.is_valid = "none"

\* the adapters whose result carries a numeric score, and the sum of these
Scored == {s \in Dispatched : AdapterResult(s).score.kind = "num"}
RECURSIVE SumScores(_)
SumScores(S) ==
    IF S = {} THEN Num(0, 1)
    ELSE LET s == CHOOSE x \in S : TRUE
         IN  Plus(AdapterResult(s).score, SumScores(S \ {s}))
\* the "num" score x is the number n/d
IsFraction(x, n, d) == x.kind = "num" /\ x.n * d = n * x.d

\* C4: the aggregate score is the arithmetic mean of exactly the per-provider
\* scores that are present (adapters without one are in neither the sum nor
\* the divisor), and is absent when no adapter reported a score.
C4_MeanOfPresentScores ==
    AggregateReturned =>
        /\ \A s \in Dispatched :
             ret.results[s].score.kind = "num" <=> s \in Scored
        /\ IF Scored = {}
           THEN ret.score = NoScore
           ELSE LET sum == SumScores(Scored)
                IN  IsFraction(ret.score, sum.n, sum.d * Cardinality(Scored))

\* C4 witness: two different scores and two adapters without one; the
\* aggregate is the mean of the two
C4_Witness ==
    /\ AggregateReturned
    /\ EnabledCount = 4
    /\ Cardinality(Scored) = 2
    /\ \E s, t \in Scored :
         /\ AdapterResult(s).score = Num(4, 5)
         /\ AdapterResult(t).score = Num(1, 1)
         /\ ret.score = Num(9, 10)

\* C5: the results mapping has exactly one entry per dispatched adapter, keyed
\* by its name, and verified_by == N, also when one fails; the failed one's
\* entry carries an error and its provider name, the others are what the
\* adapters returned.
C5_OneEntryPerAdapter ==
    AggregateReturned =>
        /\ DOMAIN ret.results = Dispatched
        /\ ret.verified_by = EnabledCount
        /\ \A s \in Dispatched :
             /\ ret.results[s].provider = s
             /\ ret.results[s].email = email
             /\ \/ ret.results[s] = AdapterResult(s)
                \/ /\ raises_on_score(AdapterResult(s))
                   /\ ret.results[s].error # "none"

\* C5 witness: three or more adapters, the processing of one raised, another
\* returned a provider error and a third a verdict
C5_Witness ==
    /\ AggregateReturned
    /\ EnabledCount >= 3
    /\ \E s \in Dispatched : ret.results[s] # AdapterResult(s)
    /\ \E s \in Dispatched :
         ret.results[s] = AdapterResult(s) /\ ret.results[s].error # "none"
    /\ \E s \in Dispatched : ret.results[s].is_valid = "true"
    /\ ret.verified_by = EnabledCount

\* an aggregate call has been made while no adapter had an API key
NoServicesCall ==
    /\ email # ""
    /\ selector = ""
    /\ \A s \in ServiceNames : ~api_key[s]

\* C6: an aggregate call made while zero adapters are enabled returns a result
\* with error set and no is_valid, calls no adapter and writes nothing to the
\* Result Store.
C6_NoServices ==
    NoServicesCall =>
        /\ pc = "idle"
        /\ ret.kind = "error"
        /\ "is_valid" \notin DOMAIN ret
        /\ ret.error # "none"
        /\ ret.email = email
        /\ called = {}
        /\ requests = 0
        /\ store_calls = 0
        /\ db = <<>>

\* C6 witness: such a call has returned its error object
C6_Witness ==
    /\ NoServicesCall
    /\ ret.kind = "error"
    /\ ret.error = "No verification services are configured with API keys"

(***************************************************************************)
(* Properties of one adapter call (SpecAdapter).                            *)
(***************************************************************************)
AdapterReturned == a_out.state = "returned"

\* the adapter has every credential it requires
HasCredentials ==
    a_in.api_key /\ (a_in.svc = "neutrinoapi" => a_in.user_id)

\* the message an adapter without credentials answers with
CredentialMessage(svc) ==
    IF svc = "neutrinoapi" THEN "API credentials not provided"
    ELSE "API key not provided"

\* C7 as stated: each of the five adapters, when it has no configured
\* credential, returns is_valid = unknown and error = "API key not provided"
\* and performs no network call.
C7_NoCredentialMessage ==
    (AdapterReturned /\ ~a_in.api_key) =>
        /\ a_out.result.is_valid = "none"
        /\ a_out.result.error = "API key not provided"
        /\ a_out.requests = 0

\* C7 amended: an adapter lacking a required credential returns is_valid =
\* unknown, score absent and an error, "API key not provided" for zerobounce,
\* mailboxlayer, spokeo and hunter and "API credentials not provided" for
\* neutrinoapi, and performs no network call.
C7_NoCredentialResult ==
    (AdapterReturned /\ ~HasCredentials) =>
        /\ a_out.result.is_valid = "none"
        /\ a_out.result.score = NoScore
        /\ a_out.result.error = CredentialMessage(a_in.svc)
        /\ a_out.result.provider = a_in.svc
        /\ a_out.result.email = a_in.email
        /\ a_out.requests = 0

\* C7 witness: neutrinoapi without an API key, the provider reachable
C7_Witness ==
    /\ AdapterReturned
    /\ a_in.svc = "neutrinoapi"
    /\ ~a_in.api_key
    /\ a_in.net.type = "json"
    /\ a_out.result.error = "API credentials not provided"
    /\ a_out.requests = 0

\* the payload lacks the field(s) the adapter reads the verdict from
LacksVerdict(svc, body) ==
    CASE svc = "zerobounce" -> body.status = "missing"
      [] svc = "mailboxlayer" ->
           /\ body.error = "missing"
           /\ "missing" \in {body.format_valid, body.mx_found, body.smtp_check}
      [] svc = "neutrinoapi" -> body.valid = "missing"
      [] svc = "spokeo" -> body.found = "missing"
      [] svc = "hunter" -> body.data # "dict" \/ body.status = "missing"

\* the exchange failed: transport error, non-2xx status, or a payload that is
\* no JSON, no JSON object, or an object without the expected fields
FailedExchange ==
    \/ a_in.net.type \in {"transport", "http", "badjson"}
    \/ /\ a_in.net.type = "json"
       /\ \/ a_in.net.body.kind # "dict"
          \/ LacksVerdict(a_in.svc, a_in.net.body)

\* C8: for every adapter and every transport error, non-2xx response or
\* malformed payload (a JSON payload that is no object or lacks the expected
\* fields included), verify_email returns is_valid = unknown, error set and
\* score absent.
C8_FailureIsUnknown ==
    (AdapterReturned /\ HasCredentials /\ FailedExchange) =>
        /\ a_out.result.is_valid = "none"
        /\ a_out.result.error # "none"
        /\ a_out.result.score = NoScore

\* C9: the score of a returned VerificationResult, when it is present (here:
\* when it is a number), lies in [0,1].
C9_ScoreInUnitInterval ==
    (AdapterReturned /\ a_out.result.score.kind = "num") =>
        /\ 0 <= a_out.result.score.n
        /\ a_out.result.score.n <= a_out.result.score.d

\* C10: when a successful response carries no definitive validity signal (the
\* status / valid / found field is missing), the returned is_valid is unknown,
\* not false.
C10_NoSignalIsUnknown ==
    (/\ AdapterReturned
     /\ HasCredentials
     /\ a_in.net.type = "json"
     /\ a_in.net.body.kind = "dict"
     /\ LacksVerdict(a_in.svc, a_in.net.body)) =>
        a_out.result.is_valid = "none"

(***************************************************************************)
(* Credentials, unknown names, one named provider, storage failures (Spec). *)
(***************************************************************************)
\* the credentials the adapter's own guard requires (line 33; neutrino line 34)
RequiredPresent(s) ==
    IF s = "neutrinoapi"
    THEN neutrino_has_credentials(api_key[s], user_id)
    ELSE api_key[s]
AggregateCalled == email # "" /\ selector = ""

\* C11: an adapter is listed by get_available_services and dispatched by an
\* aggregate call if and only if all the credentials it requires are present
\* (api_key, and user_id too for neutrinoapi); an adapter that lacks one takes
\* part in no aggregate call.
C11_EnabledIffCredentials ==
    AggregateCalled =>
        /\ \A s \in ServiceNames :
             /\ (s \in Range(get_available_services)) <=> RequiredPresent(s)
             /\ (s \in Dispatched) <=> RequiredPresent(s)
        /\ \A s \in called : RequiredPresent(s)

\* an aggregate call that dispatched at least one adapter has returned, and every
\* dispatched adapter returned an error and no score
AllErroredCall ==
    /\ pc = "idle"
    /\ ret # NoReturn
    /\ AggregateCalled
    /\ EnabledCount >= 1
    /\ \A s \in Dispatched :
         /\ AdapterResult(s).error # "none"
         /\ AdapterResult(s).score.kind = "absent"

\* C13 as claimed: when every dispatched adapter errors and none produces a
\* score, the aggregate call returns an explicit error result (error set at the
\* aggregate level).
C13_AllErrorIsErrorResult ==
    AllErroredCall => (ret.kind = "error" /\ ret.error # "none")

\* C13: when every dispatched adapter errors and none produces a score, the
\* aggregate call returns, without raising, the ordinary aggregate with is_valid
\* absent, score absent, one error entry per dispatched adapter and verified_by
\* = N; it has no error field of its own.
C13_AllErrorIsAbsentAggregate ==
    AllErroredCall =>
        /\ ret.kind = "aggregate"
        /\ "error" \notin DOMAIN ret
        /\ ret.is_valid = "none"
        /\ ret.score = NoScore
        /\ ret.verified_by = EnabledCount
        /\ DOMAIN ret.results = Dispatched
        /\ \A s \in Dispatched :
             /\ ret.results[s].error # "none"
             /\ ret.results[s].provider = s

\* C13 witness: three adapters dispatched, all three errored, the call returned
C13_Witness ==
    /\ AllErroredCall
    /\ EnabledCount = 3
    /\ ret.kind = "aggregate"
    /\ ret.verified_by = 3

\* a verify_email call that named a service has returned
SingleReturned == pc = "idle" /\ ret # NoReturn /\ selector # ""
\* the results an adapter can hand back for the call's address
AdapterResults(svc) ==
    {Service_verify_email(svc, api_key[svc], user_id, email, net).result :
       net \in SampleOutcomes(svc)}

\* C14: verify_email with a name that is not in the registry returns a
\* result-shaped error object that names the unknown service; it does not raise,
\* calls no adapter, sends no request and writes nothing to the store.
C14_UnknownService ==
    (SingleReturned /\ selector \notin ServiceNames) =>
        /\ ret = [kind |-> "error", email |-> email,
                  error |-> "Service '" \o selector \o "' not found",
                  verified |-> FALSE]
        /\ \A other \in UnknownServices \ {selector} :
             ret.error # "Service '" \o other \o "' not found"
        /\ called = {}
        /\ requests = 0
        /\ store_calls = 0
        /\ db = <<>>

\* C14 witness: a name that differs from a registered one only in its case, on a
\* manager whose adapters all hold keys
C14_Witness ==
    /\ SingleReturned
    /\ selector = "ZeroBounce"
    /\ \A s \in ServiceNames : api_key[s]
    /\ ret.kind = "error"
    /\ db = <<>>

\* C15: verify_email with a registered name calls that adapter and no other,
\* once (at most one request), hands its result to the store once, and returns
\* the adapter's result unchanged.
C15_NamedService ==
    (SingleReturned /\ selector \in ServiceNames) =>
        /\ called = {selector}
        /\ requests <= 1
        /\ store_calls = 1
        /\ ret.kind = "result"
        /\ ret.result \in AdapterResults(selector)
        /\ ret.result.provider = selector
        /\ ret.result.email = email
        /\ Len(db) <= 1
        /\ \A i \in 1..Len(db) :
             /\ db[i].email = ret.result.email
             /\ db[i].provider = selector
             /\ db[i].is_valid = ret.result.is_valid
             /\ db[i].score = ret.result.score
             /\ db[i].details = ret.result.details

\* C15 witness: mailboxlayer was named while all five adapters hold keys; its
\* result came back with a score and was stored
C15_Witness ==
    /\ SingleReturned
    /\ selector = "mailboxlayer"
    /\ \A s \in ServiceNames : api_key[s]
    /\ ret.kind = "result"
    /\ ret.result.is_valid = "true"
    /\ requests = 1
    /\ Len(db) = 1

\* what a call returns when every write to the store succeeds, as a function of
\* what the adapters returned and of nothing else
EntryOf(s) ==
    IF AdapterResult(s).score.kind = "str"
    THEN [AdapterResult(s) EXCEPT !.is_valid = "none", !.score = NoScore,
                                  !.error = "TypeError", !.details = "none"]
    ELSE AdapterResult(s)
ReturnWhenStored ==
    [kind |-> "aggregate",
     email |-> email,
     is_valid |-> IF TrueCount > 0
                  THEN BoolValid(TrueCount >= CeilHalf(EnabledCount))
                  ELSE "none",
     score |-> IF Scored = {}
               THEN NoScore
               ELSE DivBy(SumScores(Scored), Cardinality(Scored)),
     results |-> [s \in Dispatched |-> EntryOf(s)],
     verified_by |-> EnabledCount]

\* C16: the value a verify_email call returns, single or aggregate, is the same
\* whether each write to the store succeeds or fails: it is the value computed
\* from the adapters' results alone, and a failed write only leaves its row out
\* of the table.
C16_StoreFailureSwallowed ==
    /\ Len(db) = store_calls - store_failures
    /\ AggregateReturned => ret = ReturnWhenStored
    /\ (SingleReturned /\ selector \in ServiceNames) =>
           /\ ret.kind = "result"
           /\ ret.result \in AdapterResults(selector)
    /\ (pc = "idle" /\ ret # NoReturn) => ret.kind \in {"aggregate", "result", "error"}

\* C16 witness: an aggregate call of three adapters returned a verdict and a
\* score although one of its three writes failed
C16_Witness ==
    /\ AggregateReturned
    /\ EnabledCount = 3
    /\ store_calls = 3
    /\ store_failures = 1
    /\ Len(db) = 2
    /\ ret.is_valid = "true"
    /\ ret.score.kind = "num"
    /\ ret.verified_by = 3

\* C16 witness for a named service: the write failed, the result came back
C16_WitnessSingle ==
    /\ SingleReturned
    /\ selector \in ServiceNames
    /\ store_failures = 1
    /\ db = <<>>
    /\ ret.kind = "result"
    /\ ret.result.is_valid = "true"

(***************************************************************************)
(* Termination of an aggregate call (SpecLive).                             *)
(***************************************************************************)
\* C12: every aggregate verify_email call eventually returns; an enabled
\* adapter whose provider never answers is cut off and contributes a result
\* with error set.
C12_AggregateReturns ==
    (pc = "collect") ~> (pc = "idle" /\ ret.kind = "aggregate")

(***************************************************************************)
(* The history query after sequences of verify_email calls (SpecSeq).       *)
(***************************************************************************)
\* the stored rows of an address
MatchingRows(addr) == {db[i] : i \in {j \in 1..Len(db) : db[j].email = addr}}
\* the value the history query returned is exactly the stored rows of its
\* address, newest first
HistoryExact ==
    hist.state = "returned" =>
        /\ {hist.rows[i] : i \in 1..Len(hist.rows)} = MatchingRows(hist.email)
        /\ Len(hist.rows) = Cardinality(MatchingRows(hist.email))
        /\ \A i, j \in 1..Len(hist.rows) :
             i < j => hist.rows[i].verification_date >= hist.rows[j].verification_date

\* C17 as claimed: after any sequence of verifications every history(email)
\* call returns exactly the stored rows of that address, newest first.
C17_HistoryAlwaysExact ==
    [][(hist' # hist) => HistoryExact']_vars

\* C17: a history(email) call whose query succeeds returns exactly the stored
\* rows whose email equals the address, ordered by verification_date newest
\* first (rows of equal date in either order), and the empty sequence for an
\* address without rows; a call whose query raises returns the empty sequence
\* whatever is stored. No call raises.
C17_HistoryExactUnlessQueryFails ==
    [][(hist' # hist) =>
          /\ hist'.state = "returned"
          /\ IF hist'.failed THEN hist'.rows = <<>> ELSE HistoryExact']_vars

\* C17 witness: three rows are stored, two of them for the queried address at
\* different dates; the query returned those two, the newer one first
C17_Witness ==
    /\ hist.state = "returned"
    /\ ~hist.failed
    /\ Len(db) = 3
    /\ Len(hist.rows) = 2
    /\ hist.rows[1].verification_date > hist.rows[2].verification_date
    /\ hist.rows[1].id > hist.rows[2].id
    /\ \E i \in 1..Len(db) : db[i].email # hist.email
    /\ HistoryExact

\* C17 witness for an address that was never verified while another one was
C17_WitnessNoRows ==
    /\ hist.state = "returned"
    /\ ~hist.failed
    /\ hist.rows = <<>>
    /\ Len(db) > 0
    /\ MatchingRows(hist.email) = {}

(***************************************************************************)
(* One bulk_verify call (SpecBulk).                                         *)
(***************************************************************************)
BulkDone == bulk.state = "returned"
\* the call returned one result per input address, in input order
OnePerAddress ==
    /\ bulk.ret.kind = "results"
    /\ Len(bulk.ret.results) = Len(bulk.emails)
    /\ \A i \in 1..Len(bulk.emails) : bulk.ret.results[i].email = bulk.emails[i]
\* the adapters that verify a batch address by address, and those that post it
Sequential == {"mailboxlayer", "neutrinoapi", "spokeo"}
Submitting == {"zerobounce", "hunter"}

RowsOf(addr) == Cardinality({i \in 1..Len(db) : db[i].email = addr})
Occurrences(addr) ==
    Cardinality({i \in 1..Len(bulk.emails) : bulk.emails[i] = addr})

\* C19: bulk_verify does not deduplicate: an address that occurs k times in the
\* input is verified and stored k times, so with one enabled adapter (provider
\* omitted) or one selected adapter k rows are added for it. Stated for the
\* calls that verified every address and in which no write failed.
C19_RowPerOccurrence ==
    (/\ BulkDone
     /\ Len(bulk.emails) > 0
     /\ bulk.ret.kind = "results"
     /\ store_failures = 0
     /\ \/ bulk.selector = "" /\ Cardinality({s \in ServiceNames : api_key[s]}) = 1
        \/ bulk.selector \in ServiceNames /\ RequiredPresent(bulk.selector)) =>
        \A addr \in Emails : RowsOf(addr) = Occurrences(addr)

\* C20: bulk_verify with an empty input returns an explicit error, whatever the
\* provider selector; no adapter is called, no request is sent, verify_email is
\* not entered and nothing is written.
C20_EmptyInput ==
    (BulkDone /\ Len(bulk.emails) = 0) =>
        /\ bulk.ret = [kind |-> "error", error |-> "No emails provided"]
        /\ called = {}
        /\ requests = 0
        /\ email = ""
        /\ store_calls = 0
        /\ db = <<>>

\* C20 witness: the empty list with zerobounce named, on a manager that holds
\* the zerobounce key
C20_Witness ==
    /\ BulkDone
    /\ bulk.emails = <<>>
    /\ bulk.selector = "zerobounce"
    /\ api_key["zerobounce"]
    /\ bulk.ret.kind = "error"
    /\ requests = 0

(***************************************************************************)
(* The join, and the verdict against the entries (Spec).                    *)
(***************************************************************************)
\* C23: an aggregate verify_email call returns only after every adapter task
\* it dispatched has completed or failed: in no state has the aggregate been
\* returned while one of its tasks is still running or not yet handled.
C23_JoinBeforeReturn ==
    /\ (pc = "collect") => ret = NoReturn
    /\ AggregateReturned =>
           /\ \A s \in Dispatched : futures[s].state = "collected"
           /\ \A s \in ServiceNames : futures[s].state \notin {"running", "done", "blocked"}
           /\ called = Dispatched
           /\ DOMAIN ret.results = Dispatched

\* C23 witness: three tasks were dispatched; all three are over and the
\* aggregate has been returned
C23_Witness ==
    /\ AggregateReturned
    /\ EnabledCount = 3
    /\ \A s \in Dispatched : futures[s].state = "collected"
    /\ ret.verified_by = 3

\* entries of the returned results mapping whose is_valid is true
TrueEntries == {s \in DOMAIN ret.results : ret.results[s].is_valid = "true"}

\* C28: in every aggregate result the validity decision is consistent with the
\* results mapping returned with it: the valid_count that decided is_valid
\* equals the number of entries of results whose is_valid is true, also when
\* the processing of an adapter's result fails after it was counted.
C28_VerdictMatchesEntries ==
    AggregateReturned =>
        /\ valid_count = Cardinality(TrueEntries)
        /\ ret.is_valid =
               IF Cardinality(TrueEntries) > 0
               THEN BoolValid(Cardinality(TrueEntries) >= CeilHalf(EnabledCount))
               ELSE "none"

(***************************************************************************)
(* The table across sequences of operations (SpecOps).                      *)
(***************************************************************************)
\* the table after a step holds every row it held before, unchanged and at the
\* same place
RowsKept ==
    /\ Len(db') >= Len(db)
    /\ \A i \in 1..Len(db) : db'[i] = db[i]

\* C21: the store is append-only across any sequence of verify_email,
\* bulk_verify and history operations: no step modifies or deletes a stored
\* row, so the rows after an operation are those before it, unchanged, and
\* possibly new ones.
C21_AppendOnly == [][RowsKept]_vars

\* C21 witness: two rows are stored, a bulk_verify call and a history query
\* have returned since the first was written
C21_Witness ==
    /\ Len(db) = 2
    /\ db[1].email = db[2].email
    /\ db[1].provider = db[2].provider
    /\ bulk.state = "returned"
    /\ hist.state = "returned"
    /\ Len(hist.rows) = 2

\* C27: every row that reaches the store, after any sequence of single-provider,
\* aggregate and bulk verifications, has its email and its provider set;
\* is_valid and score may be absent.
C27_RowsHaveEmailAndProvider ==
    \A i \in 1..Len(db) :
        /\ db[i].email \notin {"", NoneEmail}
        /\ db[i].email \in OpsEmails
        /\ db[i].provider \in ServiceNames
        /\ db[i].is_valid \in {"true", "false", "none"}
        /\ db[i].score.kind \in {"num", "str", "absent"}

\* C27 witness: a stored row without verdict and score, and after it a
\* verification of the None address whose write the database accepted no row of
C27_Witness ==
    /\ Len(db) = 1
    /\ db[1].is_valid = "none"
    /\ db[1].score.kind = "absent"
    /\ db[1].provider = "zerobounce"
    /\ email = NoneEmail
    /\ pc = "idle"
    /\ ret # NoReturn
    /\ store_calls = 1
    /\ store_failures = 0
    /\ calls = 2

(***************************************************************************)
(* A named adapter without credentials, call after call (SpecSeq).          *)
(***************************************************************************)
\* a step that is a verify_email call naming a registered adapter that lacks a
\* credential
UncredentialedCall ==
    /\ calls' = calls + 1
    /\ selector' \in ServiceNames
    /\ ~RequiredPresent(selector')
\* the step appended one row for the call's address, without verdict and score
AppendedUnknownRow ==
    /\ Len(db') = Len(db) + 1
    /\ \A i \in 1..Len(db) : db'[i] = db[i]
    /\ db'[Len(db')].email = email'
    /\ db'[Len(db')].provider = selector'
    /\ db'[Len(db')].is_valid = "none"
    /\ db'[Len(db')].score = NoScore

\* C30 as claimed: verify_email naming a registered adapter without credential
\* sends no request and appends one row for the address (is_valid unknown,
\* score absent) on every such call.
C30_UncredentialedAlwaysAppends ==
    [][UncredentialedCall => (requests' = 0 /\ AppendedUnknownRow)]_vars

\* C30: verify_email naming a registered adapter without credential sends no
\* request, hands the adapter's error result to the store once, and the store
\* gains one row for the address (is_valid unknown, score absent) on every such
\* call whose write succeeds; a failed write is swallowed and adds no row.
C30_UncredentialedAppendsWhenStored ==
    [][UncredentialedCall =>
          /\ requests' = 0
          /\ called' = {selector'}
          /\ store_calls' = 1
          /\ ret'.kind = "result"
          /\ ret'.result.is_valid = "none"
          /\ ret'.result.error # "none"
          /\ IF store_failures' = store_failures
             THEN AppendedUnknownRow
             ELSE db' = db]_vars

\* C30 witness: three calls named zerobounce, which has no key, for the same
\* address; three rows, and the history of the address shows all three
C30_Witness ==
    /\ calls = 3
    /\ ~api_key["zerobounce"]
    /\ Len(db) = 3
    /\ \A i \in 1..3 :
         /\ db[i].provider = "zerobounce"
         /\ db[i].email = email
         /\ db[i].is_valid = "none"
    /\ hist.state = "returned"
    /\ hist.email = email
    /\ Len(hist.rows) = 3

(***************************************************************************)
(* Aggregate calls one after the other (SpecRepeat).                        *)
(***************************************************************************)
\* the adapters an aggregate call of this manager dispatches
Enabled == Range(get_available_services)
ProviderRows(s) == Cardinality({i \in 1..Len(db) : db[i].provider = s})

\* C22: each aggregate verify_email call with N enabled adapters appends
\* exactly N rows, one per provider call and none for the aggregate itself,
\* when storage succeeds, whatever was called before: after k calls there are
\* k * N rows, k for each enabled adapter, also when the calls are for the same
\* address.
C22_RowsPerCall ==
    (store_failures = 0) =>
        /\ (pc = "idle") =>
               /\ Len(db) = calls * Cardinality(Enabled)
               /\ \A s \in ServiceNames :
                    ProviderRows(s) = IF s \in Enabled THEN calls ELSE 0
        /\ (pc = "collect") =>
               Len(db) = (calls - 1) * Cardinality(Enabled) + store_calls

\* C22 witness: two calls for the same address with two enabled adapters whose
\* answers were the same both times; four rows
C22_Witness ==
    /\ pc = "idle"
    /\ calls = 2
    /\ Cardinality(Enabled) = 2
    /\ store_failures = 0
    /\ Len(db) = 4
    /\ \A i \in 1..4 : db[i].email = email
    /\ \E i, j \in 1..4 :
         /\ i # j
         /\ db[i].provider = db[j].provider
         /\ db[i].is_valid = "true"
         /\ db[j].is_valid = "true"


(***************************************************************************)
(* C26: the adapter tasks of an aggregate call share no mutable state. The  *)
(* step in which a worker thread finishes its adapter call changes that     *)
(* task's future only: it leaves the results mapping, valid_count, the      *)
(* score accumulators, the table and every other task's future as they      *)
(* were. The mapping and the accumulators change only in the collecting     *)
(* loop of the calling thread, which handles one finished future per step,  *)
(* and every step that changes the table keeps the rows it held.            *)
(***************************************************************************)
accumulators == <<results, valid_count, total_score, service_count>>

TaskFinishes(name) ==
    futures[name].state = "running" /\ futures'[name].state = "done"

LoopHandles(name) ==
    futures[name].state = "done" /\ futures'[name].state = "collected"

TaskIsolated ==
    /\ \A name \in ServiceNames :
         TaskFinishes(name) =>
            /\ UNCHANGED accumulators
            /\ UNCHANGED <<db, store_calls, store_failures>>
            /\ \A other \in ServiceNames \ {name} : futures'[other] = futures[other]
    /\ (pc = "collect" /\ (accumulators' # accumulators \/ db' # db)) =>
            \E name \in ServiceNames :
               /\ LoopHandles(name)
               /\ \A other \in ServiceNames \ {name} : futures'[other] = futures[other]
    /\ Len(db') >= Len(db)
    /\ \A i \in 1..Len(db) : db'[i] = db[i]

C26_TasksShareNothing == [][TaskIsolated]_vars

\* a task is still running while the loop has counted another task's result
C26_Witness ==
    /\ pc = "collect"
    /\ valid_count > 0
    /\ Len(db) > 0
    /\ \E a, b \in Dispatched :
         futures[a].state = "collected" /\ futures[b].state = "running"


(***************************************************************************)
(* Python floats. total_score = 0.0, total_score += score and               *)
(* total_score / service_count are IEEE 754 binary64 operations, rounded to *)
(* nearest with ties to even. A value is kept exactly, as the natural       *)
(* number value * 2^(FracLimbs * LimbBits) written in limbs of LimbBits     *)
(* bits, lowest limb first; every score of the program is non-negative and  *)
(* far below 2^(IntLimbs * LimbBits).                                       *)
(***************************************************************************)
MantissaBits == 53
LimbBits == 15
FracLimbs == 5
IntLimbs == 2
NumLimbs == FracLimbs + IntLimbs
Base == 2 ^ LimbBits
Width == NumLimbs * LimbBits

\* the limbs of a value as a tuple
Limbs(x) == SubSeq(x, 1, NumLimbs)

FloatZero == Limbs([j \in 1..NumLimbs |-> 0])

\* bit i of x, the lowest bit being bit 1
Bit(x, i) == (x[((i - 1) \div LimbBits) + 1] \div (2 ^ ((i - 1) % LimbBits))) % 2

\* the position of the highest set bit, 0 for zero
Msb(x) ==
    IF \A j \in 1..NumLimbs : x[j] = 0
    THEN 0
    ELSE LET top == CHOOSE j \in 1..NumLimbs :
                       x[j] # 0 /\ \A h \in (j + 1)..NumLimbs : x[h] = 0
         IN  (top - 1) * LimbBits +
             (CHOOSE b \in 1..LimbBits : 2 ^ (b - 1) <= x[top] /\ x[top] < 2 ^ b)

RECURSIVE CarryInto(_, _, _)
CarryInto(x, y, j) ==
    IF j = 1 THEN 0 ELSE (x[j - 1] + y[j - 1] + CarryInto(x, y, j - 1)) \div Base

\* x + y without rounding
ExactAdd(x, y) ==
    Limbs([j \in 1..NumLimbs |-> (x[j] + y[j] + CarryInto(x, y, j)) % Base])

\* x with its lowest cut bits cleared
ClearBelow(x, cut) ==
    Limbs([j \in 1..NumLimbs |->
             LET low == (j - 1) * LimbBits
             IN  IF cut >= low + LimbBits THEN 0
                 ELSE IF cut <= low THEN x[j]
                 ELSE (x[j] \div (2 ^ (cut - low))) * (2 ^ (cut - low))])

\* the value whose only set bit is bit i
OneBit(i) ==
    Limbs([j \in 1..NumLimbs |->
             IF j = ((i - 1) \div LimbBits) + 1 THEN 2 ^ ((i - 1) % LimbBits) ELSE 0])

\* x rounded to MantissaBits significant bits, to nearest and ties to even;
\* inexact tells that x is the floor of a value that has a remainder
RoundToNearest(x, inexact) ==
    LET cut == Msb(x) - MantissaBits
    IN  IF cut <= 0
        THEN x
        ELSE LET half == Bit(x, cut) = 1
                 below == inexact \/ \E i \in 1..(cut - 1) : Bit(x, i) = 1
                 odd == Bit(x, cut + 1) = 1
             IN  IF half /\ (below \/ odd)
                 THEN ExactAdd(ClearBelow(x, cut), OneBit(cut + 1))
                 ELSE ClearBelow(x, cut)

RECURSIVE RemainderAbove(_, _, _)
\* long division by a small positive integer, highest limb first: what is
\* left of the limbs above limb j
RemainderAbove(x, k, j) ==
    IF j >= NumLimbs THEN 0 ELSE (RemainderAbove(x, k, j + 1) * Base + x[j + 1]) % k

\* float / int
float_div(x, k) ==
    RoundToNearest(Limbs([j \in 1..NumLimbs |->
                            (RemainderAbove(x, k, j) * Base + x[j]) \div k]),
                   (RemainderAbove(x, k, 1) * Base + x[1]) % k # 0)

\* float + float
float_add(x, y) == RoundToNearest(ExactAdd(x, y), FALSE)

\* float(n) of a natural number below Base * Base
float_of_int(n) ==
    Limbs([j \in 1..NumLimbs |->
             IF j = FracLimbs + 1 THEN n % Base
             ELSE IF j = FracLimbs + 2 THEN n \div Base
             ELSE 0])

\* the float of a "num" score: n / d as the adapter's division rounds it
float_of(score) == float_div(float_of_int(score.n), score.d)

(***************************************************************************)
(* The as_completed loop statement by statement, with the score sum in      *)
(* floats. A finished future is handled by the calling thread in four       *)
(* statements; the state of the future tells which of them it has passed.   *)
(***************************************************************************)
LoopServices == {"zerobounce", "neutrinoapi", "spokeo", "hunter"}

\* variant of loop_body: the result is counted before it is stored
loop_body_count_first == <<"placed", "counted", "stored", "collected">>

\* lines 102, 105, 108-109 and 111-113 in the order of the source, each named
\* by the state it leaves the future in
loop_body == <<"placed", "stored", "counted", "collected">>

\* the state a future is in when the statement is about to run
Before(statement) ==
    LET i == CHOOSE k \in 1..Len(loop_body) : loop_body[k] = statement
    IN  IF i = 1 THEN "done" ELSE loop_body[i - 1]

\* the loop is inside its body for this future
InBody(s) == futures[s].state \in Range(loop_body) \ {"collected"}

\* lines 76-96, total_score = 0.0 being a float
LoopStart(addr) ==
    /\ pc = "idle"
    /\ LET available == get_available_services
       IN  /\ email' = addr
           /\ selector' = ""
           /\ results' = EmptyResults
           /\ valid_count' = 0
           /\ total_score' = FloatZero
           /\ service_count' = 0
           /\ called' = {}
           /\ requests' = 0
           /\ store_calls' = 0
           /\ IF Len(available) = 0
              THEN /\ ret' = error_object(addr,
                               "No verification services are configured with API keys")
                   /\ available_services' = <<>>
                   /\ futures' = [s \in ServiceNames |-> NoFuture]
                   /\ pc' = "idle"
              ELSE /\ ret' = NoReturn
                   /\ available_services' = available
                   /\ futures' = [s \in ServiceNames |->
                                    IF s \in Range(available)
                                    THEN [state |-> "running", result |-> NoResult]
                                    ELSE NoFuture]
                   /\ pc' = "collect"
    /\ UNCHANGED <<api_key, user_id, db, store_failures, a_in, a_out, frames>>

\* lines 99-102: the next finished future is taken and its result is placed
\* in the results mapping
PlaceResult(service_name) ==
    /\ pc = "collect"
    /\ futures[service_name].state = Before("placed")
    /\ \A s \in ServiceNames : ~InBody(s)
    /\ results' = [s \in DOMAIN results \cup {service_name} |->
                     IF s = service_name THEN futures[service_name].result
                     ELSE results[s]]
    /\ futures' = [futures EXCEPT ![service_name].state = "placed"]
    /\ UNCHANGED <<api_key, user_id, db, pc, email, selector, available_services,
                   valid_count, total_score, service_count, ret, called, requests,
                   store_calls, store_failures, a_in, a_out, frames>>

\* line 105: the result is handed to _store_verification_result
StoreResult(service_name) ==
    /\ pc = "collect"
    /\ futures[service_name].state = Before("stored")
    /\ \E ok \in StoreOutcomes :
         /\ db' = store_verification_result(db, futures[service_name].result, ok)
         /\ store_calls' = store_calls + 1
         /\ store_failures' = store_failures + (IF ok THEN 0 ELSE 1)
         /\ IF store_raises(ok)
            THEN /\ results' = [results EXCEPT ![service_name] =
                                  exception_entry(email, service_name, "store")]
                 /\ futures' = [futures EXCEPT ![service_name].state = "collected"]
            ELSE /\ results' = results
                 /\ futures' = [futures EXCEPT ![service_name].state = "stored"]
    /\ UNCHANGED <<api_key, user_id, pc, email, selector, available_services,
                   valid_count, total_score, service_count, ret, called, requests,
                   a_in, a_out, frames>>

\* lines 108-109
CountValid(service_name) ==
    /\ pc = "collect"
    /\ futures[service_name].state = Before("counted")
    /\ valid_count' = valid_count +
                        (IF counts_valid(futures[service_name].result) THEN 1 ELSE 0)
    /\ futures' = [futures EXCEPT ![service_name].state = "counted"]
    /\ UNCHANGED <<api_key, user_id, db, pc, email, selector, available_services,
                   results, total_score, service_count, ret, called, requests,
                   store_calls, store_failures, a_in, a_out, frames>>

\* lines 111-113, and lines 114-120 when the addition raises
AddScore(service_name) ==
    /\ pc = "collect"
    /\ futures[service_name].state = Before("collected")
    /\ LET service_result == futures[service_name].result
       IN  IF ~has_score(service_result)
           THEN UNCHANGED <<results, total_score, service_count>>
           ELSE IF raises_on_score(service_result)
           THEN /\ results' = [results EXCEPT ![service_name] =
                                 exception_entry(email, service_name, "TypeError")]
                /\ UNCHANGED <<total_score, service_count>>
           ELSE /\ total_score' = float_add(total_score, float_of(service_result.score))
                /\ service_count' = service_count + 1
                /\ UNCHANGED results
    /\ futures' = [futures EXCEPT ![service_name].state = "collected"]
    /\ UNCHANGED <<api_key, user_id, db, pc, email, selector, available_services,
                   valid_count, ret, called, requests, store_calls, store_failures,
                   a_in, a_out, frames>>

\* lines 127-129 in floats
float_aggregate_score(total, count) ==
    IF count > 0 THEN float_div(total, count) ELSE NoScore

\* lines 122-138
LoopReturn ==
    /\ pc = "collect"
    /\ loop_exhausted
    /\ ret' = [kind |-> "aggregate",
               email |-> email,
               is_valid |-> aggregate_is_valid(valid_count, Len(available_services)),
               score |-> float_aggregate_score(total_score, service_count),
               results |-> results,
               verified_by |-> Cardinality(DOMAIN results)]
    /\ pc' = "idle"
    /\ UNCHANGED <<api_key, user_id, db, email, selector, available_services,
                   futures, results, valid_count, total_score, service_count,
                   called, requests, store_calls, store_failures, a_in, a_out, frames>>

\* a manager whose keys are among LoopServices
LoopInit ==
    /\ Init
    /\ {s \in ServiceNames : api_key[s]} \subseteq LoopServices

\* one aggregate call on a freshly constructed manager
LoopNext ==
    \/ \E addr \in Emails : Fresh /\ LoopStart(addr) /\ UNCHANGED seq_vars
    \/ \E name \in ServiceNames : AdapterTask(name) /\ UNCHANGED seq_vars
    \/ \E service_name \in ServiceNames : PlaceResult(service_name) /\ UNCHANGED seq_vars
    \/ \E service_name \in ServiceNames : StoreResult(service_name) /\ UNCHANGED seq_vars
    \/ \E service_name \in ServiceNames : CountValid(service_name) /\ UNCHANGED seq_vars
    \/ \E service_name \in ServiceNames : AddScore(service_name) /\ UNCHANGED seq_vars
    \/ LoopReturn /\ UNCHANGED seq_vars

SpecLoop == LoopInit /\ [][LoopNext]_vars


(***************************************************************************)
(* C25: inside the loop body the result of a finished future is placed in   *)
(* the results mapping first (line 102), handed to the store next (line     *)
(* 105) and counted toward valid_count and the score sum after that (lines  *)
(* 108-113): a result in the mapping may not have reached the store yet,    *)
(* while every counted result has. A failing write stops nothing: the call  *)
(* returns an entry for every dispatched adapter, the adapter's own result  *)
(* unless its score could not be added.                                     *)
(***************************************************************************)
PastStatement(passed) == {s \in Dispatched : futures[s].state \in passed}

ScoreAdded(s) ==
    has_score(futures[s].result) /\ ~raises_on_score(futures[s].result)

AllCollected ==
    AggregateReturned =>
        /\ DOMAIN ret.results = Dispatched
        /\ \A s \in Dispatched :
             ret.results[s] = IF raises_on_score(futures[s].result)
                              THEN exception_entry(email, s, "TypeError")
                              ELSE futures[s].result

\* the sentence as written: whatever is in the mapping has been handed to the
\* store
C25_StoredBeforePlaced ==
    /\ (pc = "collect") => Cardinality(DOMAIN results) <= store_calls
    /\ AllCollected

C25_PlacedThenStoredThenCounted ==
    /\ (pc = "collect") =>
         /\ DOMAIN results = PastStatement({"placed", "stored", "counted", "collected"})
         /\ store_calls = Cardinality(PastStatement({"stored", "counted", "collected"}))
         /\ valid_count =
              Cardinality({s \in PastStatement({"counted", "collected"}) :
                             counts_valid(futures[s].result)})
         /\ service_count =
              Cardinality({s \in PastStatement({"collected"}) : ScoreAdded(s)})
         /\ Cardinality(PastStatement({"placed", "stored", "counted"})) <= 1
    /\ AllCollected

\* a result sits in the mapping and has not reached the store, after the write
\* of another adapter's result has failed
C25_Witness ==
    /\ pc = "collect"
    /\ store_failures > 0
    /\ \E s, other \in Dispatched :
         /\ futures[s].state = "placed"
         /\ futures[other].state = "collected"
         /\ Len(db) = 0

\* the call returned every entry although a write failed
C25_WitnessReturned ==
    /\ AggregateReturned
    /\ store_failures > 0
    /\ EnabledCount >= 2
    /\ Len(db) >= 1


(***************************************************************************)
(* C24: for the per-adapter results of a call, the aggregate is_valid,      *)
(* score and verified_by that the call returned are those that the loop     *)
(* computes along every order in which the futures can complete.            *)
(***************************************************************************)
Orders ==
    {order \in [1..EnabledCount -> Dispatched] :
        \A i, j \in 1..EnabledCount : order[i] = order[j] => i = j}

RECURSIVE ScoreSumAlong(_, _)
\* total_score after the first i futures of the order
ScoreSumAlong(order, i) ==
    IF i = 0
    THEN FloatZero
    ELSE IF ScoreAdded(order[i])
    THEN float_add(ScoreSumAlong(order, i - 1), float_of(futures[order[i]].result.score))
    ELSE ScoreSumAlong(order, i - 1)

RECURSIVE ValidCountAlong(_, _)
\* valid_count after the first i futures of the order
ValidCountAlong(order, i) ==
    IF i = 0
    THEN 0
    ELSE ValidCountAlong(order, i - 1) +
         (IF counts_valid(futures[order[i]].result) THEN 1 ELSE 0)

ScoreAlong(order) ==
    float_aggregate_score(ScoreSumAlong(order, EnabledCount),
                          Cardinality({s \in Dispatched : ScoreAdded(s)}))

C24_OrderIndependent ==
    AggregateReturned =>
        \A order \in Orders :
           /\ ret.is_valid =
                aggregate_is_valid(ValidCountAlong(order, EnabledCount), EnabledCount)
           /\ ret.verified_by = Cardinality(Range(order))
           /\ ret.score = ScoreAlong(order)


(***************************************************************************)
(* Two threads call verify_email(email) on the one manager at the same      *)
(* time. Everything verify_email works on is a local of the call (lines     *)
(* 78-89 and 93-96): each caller has its own frame. The calls share         *)
(* self.services, which they only read, and the table.                      *)
(***************************************************************************)
PairServices == {"zerobounce", "hunter"}

\* variant of task_email: the address is the one of the call started last
task_email_of_last_call(c) == email

\* line 94: the address handed to the adapter is the call's own argument
task_email(c) == frames[c].email

\* lines 76-96 for caller c
CallStart(c, addr) ==
    /\ frames[c].pc = "idle"
    /\ frames[c].ret = NoReturn
    /\ \A other \in Callers \ {c} : frames[other].email # addr
    /\ email' = addr
    /\ LET available == get_available_services
       IN  frames' = [frames EXCEPT ![c] =
             IF Len(available) = 0
             THEN [NoFrame EXCEPT
                     !.email = addr,
                     !.ret = error_object(addr,
                               "No verification services are configured with API keys")]
             ELSE [NoFrame EXCEPT
                     !.pc = "collect",
                     !.email = addr,
                     !.available_services = available,
                     !.futures = [s \in ServiceNames |->
                                    IF s \in Range(available)
                                    THEN [state |-> "running", result |-> NoResult]
                                    ELSE NoFuture]]]
    /\ UNCHANGED <<api_key, user_id, db, pc, selector, available_services, futures,
                   results, valid_count, total_score, service_count, ret, called,
                   requests, store_calls, store_failures, seq_vars, a_in, a_out>>

\* a worker thread of caller c runs self.services[name].verify_email(email)
CallTask(c, name) ==
    /\ frames[c].pc = "collect"
    /\ frames[c].futures[name].state = "running"
    /\ \E net \in SampleOutcomes(name) :
         LET out == Service_verify_email(name, api_key[name], user_id,
                                         task_email(c), net)
         IN  frames' = [frames EXCEPT ![c].futures[name] =
                          [state |-> "done", result |-> out.result]]
    /\ UNCHANGED <<api_key, user_id, db, pc, email, selector, available_services,
                   futures, results, valid_count, total_score, service_count, ret,
                   called, requests, store_calls, store_failures, seq_vars,
                   a_in, a_out>>

\* one iteration of caller c's as_completed loop: lines 98-120
CallCollect(c, service_name) ==
    /\ frames[c].pc = "collect"
    /\ frames[c].futures[service_name].state = "done"
    /\ \E ok \in StoreOutcomes :
         LET f == frames[c]
             service_result == f.futures[service_name].result
             stored == ~store_raises(ok)
             scored == stored /\ has_score(service_result)
             raised == scored /\ raises_on_score(service_result)
             entry == IF ~stored
                      THEN exception_entry(f.email, service_name, "store")
                      ELSE IF raised
                      THEN exception_entry(f.email, service_name, "TypeError")
                      ELSE service_result
         IN  /\ db' = store_verification_result(db, service_result, ok)
             /\ store_failures' = store_failures + (IF ok THEN 0 ELSE 1)
             /\ frames' = [frames EXCEPT ![c] =
                  [f EXCEPT
                     !.results = [s \in DOMAIN f.results \cup {service_name} |->
                                    IF s = service_name THEN entry ELSE f.results[s]],
                     !.valid_count = f.valid_count +
                                       (IF stored /\ counts_valid(service_result)
                                        THEN 1 ELSE 0),
                     !.total_score = IF scored /\ ~raised
                                     THEN Plus(f.total_score, service_result.score)
                                     ELSE f.total_score,
                     !.service_count = f.service_count +
                                         (IF scored /\ ~raised THEN 1 ELSE 0),
                     !.futures[service_name].state = "collected"]]
    /\ UNCHANGED <<api_key, user_id, pc, email, selector, available_services, futures,
                   results, valid_count, total_score, service_count, ret, called,
                   requests, store_calls, seq_vars, a_in, a_out>>

\* lines 122-138 for caller c
CallReturn(c) ==
    /\ frames[c].pc = "collect"
    /\ \A s \in Range(frames[c].available_services) :
         frames[c].futures[s].state = "collected"
    /\ LET f == frames[c]
       IN  frames' = [frames EXCEPT ![c] =
             [f EXCEPT
                !.pc = "idle",
                !.ret = [kind |-> "aggregate",
                         email |-> f.email,
                         is_valid |-> aggregate_is_valid(f.valid_count,
                                                         Len(f.available_services)),
                         score |-> aggregate_score(f.total_score, f.service_count),
                         results |-> f.results,
                         verified_by |-> Cardinality(DOMAIN f.results)]]]
    /\ UNCHANGED <<api_key, user_id, db, pc, email, selector, available_services,
                   futures, results, valid_count, total_score, service_count, ret,
                   called, requests, store_calls, store_failures, seq_vars,
                   a_in, a_out>>

\* a manager whose keys are among PairServices
PairInit ==
    /\ Init
    /\ {s \in ServiceNames : api_key[s]} \subseteq PairServices
    /\ ~user_id

PairNext ==
    \/ \E c \in Callers, addr \in Emails : CallStart(c, addr)
    \/ \E c \in Callers, name \in ServiceNames : CallTask(c, name)
    \/ \E c \in Callers, service_name \in ServiceNames : CallCollect(c, service_name)
    \/ \E c \in Callers : CallReturn(c)

SpecPair == PairInit /\ [][PairNext]_vars

(***************************************************************************)
(* C29: two aggregate calls that run at the same time on one manager for    *)
(* different addresses do not interfere. Every entry of a returned          *)
(* aggregate is for the call's own address; its is_valid, score and         *)
(* verified_by are those of the results of its own adapter calls; and every *)
(* row of the table belongs to one call: it carries that call's address and *)
(* what that call's adapter returned, at most one row per adapter and call. *)
(***************************************************************************)
OwnResult(c, s) == frames[c].futures[s].result
OwnDispatched(c) == Range(frames[c].available_services)
OwnValid(c) == {s \in OwnDispatched(c) : counts_valid(OwnResult(c, s))}
OwnScored(c) ==
    {s \in OwnDispatched(c) :
        has_score(OwnResult(c, s)) /\ ~raises_on_score(OwnResult(c, s))}

RECURSIVE OwnSum(_, _)
OwnSum(c, S) ==
    IF S = {} THEN Num(0, 1)
    ELSE LET s == CHOOSE t \in S : TRUE
         IN  Plus(OwnResult(c, s).score, OwnSum(c, S \ {s}))

RowsFor(c, s) ==
    {i \in 1..Len(db) : db[i].email = frames[c].email /\ db[i].provider = s}

C29_CallsDoNotInterfere ==
    /\ \A c \in Callers :
         (frames[c].ret # NoReturn /\ frames[c].ret.kind = "aggregate") =>
            LET r == frames[c].ret
            IN  /\ r.email = frames[c].email
                /\ DOMAIN r.results = OwnDispatched(c)
                /\ \A s \in DOMAIN r.results :
                     /\ r.results[s].email = frames[c].email
                     /\ r.results[s].provider = s
                     /\ \/ r.results[s] = OwnResult(c, s)
                        \/ raises_on_score(OwnResult(c, s))
                /\ r.verified_by = Cardinality(OwnDispatched(c))
                /\ r.is_valid = aggregate_is_valid(Cardinality(OwnValid(c)),
                                                   Cardinality(OwnDispatched(c)))
                /\ r.score = aggregate_score(OwnSum(c, OwnScored(c)),
                                             Cardinality(OwnScored(c)))
    /\ \A i \in 1..Len(db) :
         \E c \in Callers :
            /\ db[i].email = frames[c].email
            /\ db[i].provider \in OwnDispatched(c)
            /\ frames[c].futures[db[i].provider].state = "collected"
            /\ db[i].is_valid = OwnResult(c, db[i].provider).is_valid
            /\ db[i].score = OwnResult(c, db[i].provider).score
    /\ \A c \in Callers, s \in ServiceNames :
         /\ Cardinality(RowsFor(c, s)) <= 1
         /\ (store_failures = 0 /\ s \in OwnDispatched(c)
               /\ frames[c].futures[s].state = "collected") =>
                  Cardinality(RowsFor(c, s)) = 1

\* both calls returned an aggregate of two adapters and their writes
\* alternated in the table
C29_Witness ==
    /\ \A c \in Callers :
         /\ frames[c].ret # NoReturn
         /\ frames[c].ret.kind = "aggregate"
         /\ frames[c].ret.verified_by = 2
         /\ frames[c].ret.is_valid = "true"
    /\ frames[1].email # frames[2].email
    /\ Len(db) = 4
    /\ db[1].email = db[3].email
    /\ db[2].email = db[4].email
    /\ db[1].email # db[2].email

====
